---- MODULE Spec2Model ----
(***************************************************************************)
(* Model of the AI Prompt Engineer Streamlit application:                  *)
(*   src/services.py            call_openai_api, save_to_airtable,         *)
(*                              fetch_from_airtable, client initialisation *)
(*   src/Airtable/ui_components.py   main_app_page, admin_page             *)
(*   src/app.py                 main (page routing)                        *)
(*                                                                         *)
(* Streamlit re-executes the script from the top on every user             *)
(* interaction, so one action of the model is one script run: the widget   *)
(* the user operated, the widget values, and the outcome of every external *)
(* call made during the run are the action's inputs.                       *)
(*                                                                         *)
(* Text is a sequence of one-character strings over " ", "x" and "1".      *)
(* None and NaN are the sentinels below; no text equals either.            *)
(***************************************************************************)
EXTENDS Integers, Sequences, FiniteSets, TLC

\* ------------------------------------------------------------------ bounds
MaxRecords == 2     \* most rows the Airtable table holds

\* ------------------------------------------------------------ text values
None == <<"None">>
NaN == <<"NaN">>

\* message contents the backend returns in the runs explored: blank, plain
\* text, padded plain text, a JSON document
Completions == {<<" ">>, <<"x">>, <<" ", "x">>, <<"1">>}

\* Truthy with the test written as `is not None`
Truthy_IsNotNone(v) == v # None

\* Python truthiness of a str-or-None value
Truthy(v) == v # None /\ v # <<>>

\* str.strip()
RECURSIVE LStrip(_)
LStrip(s) == IF s # <<>> /\ Head(s) = " " THEN LStrip(Tail(s)) ELSE s

RECURSIVE RStrip(_)
RStrip(s) ==
    IF s # <<>> /\ s[Len(s)] = " " THEN RStrip(SubSeq(s, 1, Len(s) - 1)) ELSE s

Strip(s) == RStrip(LStrip(s))

\* json.loads(v) returns a value (no JSONDecodeError, no TypeError).  Over
\* these characters the JSON documents are the digit strings, optionally surrounded by
\* whitespace; None raises TypeError.
JsonLoads(v) ==
    /\ v # None
    /\ Strip(v) # <<>>
    /\ \A i \in 1..Len(Strip(v)) : Strip(v)[i] = "1"

\* ----------------------------------------------------------- form inputs
\* st.selectbox options of the tone widget
Tones == <<"Professional", "Casual", "Enthusiastic", "Formal", "Humorous",
           "Neutral", "Empathetic">>

\* values typed into goal / context / format that leave the field unfilled
Unfilled == {<<>>, <<" ">>}
\* values typed into constraints
ConstraintValues == {<<>>, <<"x">>}
\* passwords typed into the admin login
ADMIN_PASSWORD == <<"x", "1">>
Passwords == {<<>>, <<"x">>, ADMIN_PASSWORD}

\* ------------------------------------------------- outcomes of the backend
\* chat.completions.create either raises (openai.APIError, or anything else)
\* or returns a message whose content is a text or None.
ApiOutcomes ==
    {[t |-> "APIError"], [t |-> "Exception"]}
    \cup {[t |-> "content", content |-> c] : c \in Completions \cup {None}}

VARIABLES
    openai_client,   \* services.openai_client is not None
    airtable_table,  \* services.airtable_table is not None
    session_state,   \* st.session_state: key -> value
    store,           \* rows of the Airtable table: <<[id, fields]>>
    page,            \* page rendered by the last run
    ui,              \* elements the last run put on the page
    calls,           \* calls of call_openai_api made by the last run
    saves,           \* calls of save_to_airtable made by the last run
    fetched,         \* the last run called fetch_from_airtable
    records,         \* result of fetch_from_airtable in the last run
    halt,            \* how the last run ended
    buttons,         \* buttons the last run rendered
    submitted        \* widget values of the last run

vars == <<openai_client, airtable_table, session_state, store, page, ui,
          calls, saves, fetched, records, halt, buttons, submitted>>

\* ------------------------------------------------------------ page elements
\* One element written to the page: the Streamlit call (kind), the fixed
\* message of the call (msg, "" when the call shows a value) and the value
\* shown (text, <<>> when the call shows a fixed message).
El(kind, msg) == [kind |-> kind, msg |-> msg, text |-> <<>>]
Show(kind, text) == [kind |-> kind, msg |-> "", text |-> text]

Has(elements, kind, msg) ==
    \E i \in 1..Len(elements) : elements[i].kind = kind /\ elements[i].msg = msg

\* ------------------------------------------------------------- services.py
\* call_openai_api without the `if not openai_client` guard
call_openai_api_NoClientCheck(op, user_prompt, o) ==
    IF o.t = "APIError"
    THEN [op |-> op, user |-> user_prompt, network |-> TRUE, result |-> None,
          msgs |-> <<El("error", "An OpenAI API error occurred")>>]
    ELSE IF o.t = "Exception" \/ o.content = None
    THEN [op |-> op, user |-> user_prompt, network |-> TRUE, result |-> None,
          msgs |-> <<El("error", "An unexpected error occurred while calling OpenAI")>>]
    ELSE [op |-> op, user |-> user_prompt, network |-> TRUE,
          result |-> Strip(o.content), msgs |-> <<>>]

\* call_openai_api(system_prompt, user_prompt) with backend outcome o.
\* result: the returned value; msgs: what it writes to the page; network:
\* whether chat.completions.create was invoked.
call_openai_api(op, user_prompt, o) ==
    IF ~openai_client
    THEN [op |-> op, user |-> user_prompt, network |-> FALSE, result |-> None,
          msgs |-> <<El("error", "OpenAI client is not initialized")>>]
    ELSE IF o.t = "APIError"
    THEN [op |-> op, user |-> user_prompt, network |-> TRUE, result |-> None,
          msgs |-> <<El("error", "An OpenAI API error occurred")>>]
    ELSE IF o.t = "Exception" \/ o.content = None
    THEN \* None.strip() raises AttributeError, caught by `except Exception`
         [op |-> op, user |-> user_prompt, network |-> TRUE, result |-> None,
          msgs |-> <<El("error", "An unexpected error occurred while calling OpenAI")>>]
    ELSE [op |-> op, user |-> user_prompt, network |-> TRUE,
          result |-> Strip(o.content), msgs |-> <<>>]

\* the opaque, non-empty id the table assigns to its n-th row
RecordId(n) == <<"rec", n>>

\* save_to_airtable without the try/except around create
save_to_airtable_Uncaught(data, createOk) ==
    IF ~airtable_table
    THEN [data |-> data, create |-> FALSE, saved |-> FALSE, raised |-> FALSE,
          rows |-> store,
          msgs |-> <<El("warning", "Airtable is not configured. Data not saved.")>>]
    ELSE IF createOk
    THEN [data |-> data, create |-> TRUE, saved |-> TRUE, raised |-> FALSE,
          rows |-> Append(store, [id |-> RecordId(Len(store) + 1), fields |-> data]),
          msgs |-> <<El("toast", "Prompt saved to Airtable!")>>]
    ELSE [data |-> data, create |-> TRUE, saved |-> FALSE, raised |-> TRUE,
          rows |-> store, msgs |-> <<>>]

\* save_to_airtable(data); createOk: airtable_table.create returns.
\* data: the argument; create: airtable_table.create was invoked; saved: the
\* return value; raised: an exception leaves the function; rows: the table
\* after the call.
save_to_airtable(data, createOk) ==
    IF ~airtable_table
    THEN [data |-> data, create |-> FALSE, saved |-> FALSE, raised |-> FALSE,
          rows |-> store,
          msgs |-> <<El("warning", "Airtable is not configured. Data not saved.")>>]
    ELSE IF createOk
    THEN [data |-> data, create |-> TRUE, saved |-> TRUE, raised |-> FALSE,
          rows |-> Append(store, [id |-> RecordId(Len(store) + 1), fields |-> data]),
          msgs |-> <<El("toast", "Prompt saved to Airtable!")>>]
    ELSE \* `except Exception` turns the failure of create into a message
         [data |-> data, create |-> TRUE, saved |-> FALSE, raised |-> FALSE,
          rows |-> store,
          msgs |-> <<El("error", "Failed to save data to Airtable")>>]

\* fetch_from_airtable(); allOk: airtable_table.all returns.
fetch_from_airtable(allOk) ==
    IF ~airtable_table
    THEN [rows |-> <<>>,
          msgs |-> <<El("warning", "Airtable is not configured. Cannot fetch data.")>>]
    ELSE IF allOk
    THEN [rows |-> store, msgs |-> <<>>]
    ELSE [rows |-> <<>>, msgs |-> <<El("error", "Failed to fetch data from Airtable")>>]

\* ------------------------------------------- ui_components.main_app_page
NoForm == [submit |-> FALSE]

Form(goal, context, output_format, tone, constraints) ==
    [submit |-> TRUE, goal |-> goal, context |-> context,
     output_format |-> output_format, tone |-> tone, constraints |-> constraints]

\* AllRequired with goal left out of the list
AllRequired_SkipsGoal(f) ==
    Truthy(f.context) /\ Truthy(f.output_format) /\ f.tone # ""

\* all([goal, context, output_format, tone]); tone is a selectbox option,
\* never empty
AllRequired(f) ==
    Truthy(f.goal) /\ Truthy(f.context) /\ Truthy(f.output_format) /\ f.tone # ""

\* user_input_summary
user_input_summary(f) ==
    <<"**Goal:**\n">> \o f.goal \o <<"\n\n**Context:**\n">> \o f.context
    \o <<"\n\n**Desired Format:**\n">> \o f.output_format
    \o <<"\n\n**Tone of Voice:**\n", f.tone>>
    \o <<"\n\n**Constraints:**\n">> \o f.constraints \o <<"\n">>

\* airtable_data; Timestamp is utcnow().isoformat(), one opaque value here
airtable_data(f, generated_prompt) ==
    [Goal |-> f.goal, Context |-> f.context, Format |-> f.output_format,
     Tone |-> f.tone, Constraints |-> f.constraints,
     GeneratedPrompt |-> generated_prompt, Timestamp |-> "utcnow"]

\* st.session_state.key = value
SetKey(ss, key, value) ==
    [k \in DOMAIN ss \cup {key} |-> IF k = key THEN value ELSE ss[k]]

\* the block `if "generated_prompt" in st.session_state:`
PromptPanel(ss) ==
    IF "generated_prompt" \in DOMAIN ss
    THEN <<El("success", "Prompt successfully generated!"),
           Show("code", ss["generated_prompt"]),
           Show("download_button", ss["generated_prompt"])>>
    ELSE <<>>

MainButtons == {"submit"}

\* A run of main_app_page without a form submission (page opened, or a
\* widget outside the form operated).
MainView ==
    /\ page' = "main"
    /\ submitted' = NoForm
    /\ ui' = PromptPanel(session_state)
    /\ calls' = <<>>
    /\ saves' = <<>>
    /\ fetched' = FALSE
    /\ records' = <<>>
    /\ halt' = "done"
    /\ buttons' = MainButtons
    /\ UNCHANGED <<openai_client, airtable_table, session_state, store>>

\* A run of main_app_page with the form submitted.
Submit(f, o, createOk) ==
    /\ "submit" \in buttons
    /\ createOk => Len(store) < MaxRecords
    /\ page' = "main"
    /\ submitted' = f
    /\ fetched' = FALSE
    /\ records' = <<>>
    /\ buttons' = MainButtons
    /\ UNCHANGED <<openai_client, airtable_table>>
    /\ IF ~AllRequired(f)
       THEN /\ ui' = <<El("warning", "Please fill out all the required fields")>>
            /\ calls' = <<>>
            /\ saves' = <<>>
            /\ halt' = "return"
            /\ UNCHANGED <<session_state, store>>
       ELSE \E c \in {call_openai_api("synthesis", user_input_summary(f), o)} :
            LET generated_prompt == c.result IN
            /\ calls' = <<c>>
            /\ IF Truthy(generated_prompt)
               THEN \E s \in {save_to_airtable(
                                  airtable_data(f, generated_prompt), createOk)} :
                    LET ss == SetKey(session_state, "generated_prompt",
                                     generated_prompt)
                    IN  /\ session_state' = ss
                        /\ store' = s.rows
                        /\ saves' = <<[data |-> s.data, create |-> s.create,
                                       saved |-> s.saved]>>
                        /\ IF s.raised
                           THEN \* the exception ends the run
                                /\ halt' = "Exception"
                                /\ ui' = c.msgs \o s.msgs
                           ELSE /\ halt' = "done"
                                /\ ui' = c.msgs \o s.msgs \o PromptPanel(ss)
               ELSE /\ ui' = c.msgs \o PromptPanel(session_state)
                    /\ saves' = <<>>
                    /\ halt' = "done"
                    /\ UNCHANGED <<session_state, store>>

\* ---------------------------------------------- ui_components.admin_page
\* df has a column 'GeneratedPrompt' iff some fetched row has the field
HasPromptColumn(rows) ==
    \E i \in 1..Len(rows) : "GeneratedPrompt" \in DOMAIN rows[i].fields

\* df cell: the row's field, NaN where the row lacks it
PromptCell(row) ==
    IF "GeneratedPrompt" \in DOMAIN row.fields
    THEN row.fields["GeneratedPrompt"] ELSE NaN

\* df['GeneratedPrompt'].dropna().tolist()
RECURSIVE DropNa(_)
DropNa(rows) ==
    IF rows = <<>> THEN <<>>
    ELSE IF PromptCell(Head(rows)) = NaN THEN DropNa(Tail(rows))
    ELSE <<PromptCell(Head(rows))>> \o DropNa(Tail(rows))

\* "\n\n---\n\n".join(prompts)
RECURSIVE Join(_)
Join(prompts) ==
    IF prompts = <<>> THEN <<>>
    ELSE IF Len(prompts) = 1 THEN Head(prompts)
    ELSE Head(prompts) \o <<"\n\n---\n\n">> \o Join(Tail(prompts))

\* df[df['record_id'] == selected_id].iloc[0]
SelectedRecord(rows, selected_id) ==
    rows[CHOOSE i \in 1..Len(rows) :
            /\ rows[i].id = selected_id
            /\ \A j \in 1..(i - 1) : rows[j].id # selected_id]

\* st.markdown(result or fallback)
MarkdownOr(result, fallback) ==
    IF Truthy(result) THEN Show("markdown", result) ELSE El("markdown", fallback)

\* MetadataDisplay with the except branch showing only the fixed message
MetadataDisplay_NoRaw(m) ==
    IF JsonLoads(m) THEN Show("json", m)
    ELSE El("text", "Could not extract metadata.")

\* try: st.json(json.loads(m))  except (JSONDecodeError, TypeError):
\*     st.text(m or "Could not extract metadata.")
MetadataDisplay(m) ==
    IF JsonLoads(m) THEN Show("json", m)
    ELSE IF Truthy(m) THEN Show("text", m)
    ELSE El("text", "Could not extract metadata.")

\* AnalyzeBlock giving up after a failed quality analysis
AnalyzeBlock_StopsOnFailure(prompt_to_analyze, o1, o2, o3) ==
    LET q == call_openai_api("quality", prompt_to_analyze, o1)
        m == call_openai_api("metadata", prompt_to_analyze, o2)
        z == call_openai_api("summary", prompt_to_analyze, o3)
    IN  IF q.result = None
        THEN [calls |-> <<q>>,
              ui |-> <<El("spinner", "Running GPT-5 analysis")>>
                     \o <<El("subheader", "Quality Analysis")>> \o q.msgs
                     \o <<MarkdownOr(q.result, "Could not generate analysis.")>>]
        ELSE [calls |-> <<q, m, z>>,
              ui |-> <<El("spinner", "Running GPT-5 analysis")>>
                     \o <<El("subheader", "Quality Analysis")>> \o q.msgs
                     \o <<MarkdownOr(q.result, "Could not generate analysis.")>>
                     \o <<El("subheader", "Extracted Metadata")>> \o m.msgs
                     \o <<MetadataDisplay(m.result)>>
                     \o <<El("subheader", "Strengths & Weaknesses")>> \o z.msgs
                     \o <<MarkdownOr(z.result, "Could not generate summary.")>>]

\* the block under `if st.button("Analyze This Prompt"):`
AnalyzeBlock(prompt_to_analyze, o1, o2, o3) ==
    LET q == call_openai_api("quality", prompt_to_analyze, o1)
        m == call_openai_api("metadata", prompt_to_analyze, o2)
        z == call_openai_api("summary", prompt_to_analyze, o3)
    IN  [calls |-> <<q, m, z>>,
         ui |-> <<El("spinner", "Running GPT-5 analysis")>>
                \o <<El("subheader", "Quality Analysis")>> \o q.msgs
                \o <<MarkdownOr(q.result, "Could not generate analysis.")>>
                \o <<El("subheader", "Extracted Metadata")>> \o m.msgs
                \o <<MetadataDisplay(m.result)>>
                \o <<El("subheader", "Strengths & Weaknesses")>> \o z.msgs
                \o <<MarkdownOr(z.result, "Could not generate summary.")>>]

\* the block under `if st.button("Run Batch Analysis on All Prompts"):`
BatchBlock(rows, ob) ==
    LET all_prompts == Join(DropNa(rows))
        b == call_openai_api("batch", all_prompts, ob)
    IN  [calls |-> <<b>>,
         ui |-> <<El("spinner", "Analyzing trends across all prompts")>> \o b.msgs
                \o <<El("subheader", "Trend Analysis Report"),
                     MarkdownOr(b.result, "Could not generate batch analysis.")>>]

\* admin_page from `st.success("Logged in successfully.")` on: the run of a
\* logged-in session.  click: the button operated, if the run renders it.
AdminBody(ss, click, allOk, selected_id, o1, o2, o3, ob) ==
    LET f == fetch_from_airtable(allOk)
        rows == f.rows
        top == <<El("success", "Logged in successfully.")>> \o f.msgs
    IN
    IF rows = <<>>
    THEN [ss |-> ss, fetched |-> TRUE, records |-> rows, calls |-> <<>>, halt |-> "stop",
          buttons |-> {},
          ui |-> top \o <<El("warning", "No records found in Airtable or service is not configured.")>>]
    ELSE
    LET table == top \o <<El("dataframe", "All Prompt Submissions")>> IN
    IF selected_id # <<>> /\ ~HasPromptColumn(rows)
    THEN \* selected_record['GeneratedPrompt'] raises KeyError
         [ss |-> ss, fetched |-> TRUE, records |-> rows, calls |-> <<>>, halt |-> "KeyError",
          buttons |-> {}, ui |-> table]
    ELSE
    LET prompt_to_analyze == PromptCell(SelectedRecord(rows, selected_id))
        a == IF selected_id # <<>> /\ click = "analyze"
             THEN AnalyzeBlock(prompt_to_analyze, o1, o2, o3)
             ELSE [calls |-> <<>>, ui |-> <<>>]
        \* df['GeneratedPrompt'] raises KeyError without the column
        batchKeyError == click = "batch" /\ ~HasPromptColumn(rows)
        b == IF click = "batch" /\ ~batchKeyError
             THEN BatchBlock(rows, ob)
             ELSE [calls |-> <<>>, ui |-> <<>>]
    IN  [ss |-> ss, fetched |-> TRUE, records |-> rows, calls |-> a.calls \o b.calls,
         halt |-> IF batchKeyError THEN "KeyError" ELSE "done",
         buttons |-> (IF selected_id # <<>> THEN {"analyze"} ELSE {}) \cup {"batch"},
         ui |-> table
                \o (IF selected_id # <<>>
                    THEN <<Show("code", prompt_to_analyze)>> ELSE <<>>)
                \o a.ui \o b.ui]

\* the comparison accepting any non-empty input
PasswordMatches_NonEmpty(password) == password # <<>>

\* password == ADMIN_PASSWORD
PasswordMatches(password) == password = ADMIN_PASSWORD

\* admin_page
admin_page(ss0, click, password, allOk, selected_id, o1, o2, o3, ob) ==
    LET ss == IF "logged_in" \in DOMAIN ss0 THEN ss0
              ELSE SetKey(ss0, "logged_in", FALSE)
    IN
    IF ~ss["logged_in"]
    THEN IF click = "login" /\ PasswordMatches(password)
         THEN \* st.rerun(): the script runs again, now logged in
              AdminBody(SetKey(ss, "logged_in", TRUE), "none", allOk,
                        selected_id, o1, o2, o3, ob)
         ELSE [ss |-> ss, fetched |-> FALSE, records |-> <<>>, calls |-> <<>>, halt |-> "stop",
               buttons |-> {"login"},
               ui |-> IF click = "login"
                      THEN <<El("error", "Incorrect password.")>> ELSE <<>>]
    ELSE AdminBody(ss, click, allOk, selected_id, o1, o2, o3, ob)

\* the values the selectbox of record ids can hold in a run
SelectChoices(allOk) ==
    LET rows == fetch_from_airtable(allOk).rows
    IN  IF rows = <<>> THEN {<<>>} ELSE {rows[i].id : i \in 1..Len(rows)}

AdminRun(click, password, allOk, selected_id, o1, o2, o3, ob) ==
    \E r \in {admin_page(session_state, click, password, allOk, selected_id,
                         o1, o2, o3, ob)} :
        /\ page' = "admin"
        /\ submitted' = [submit |-> FALSE, click |-> click, password |-> password]
        /\ session_state' = r.ss
        /\ ui' = r.ui
        /\ calls' = r.calls
        /\ saves' = <<>>
        /\ fetched' = r.fetched
        /\ records' = r.records
        /\ halt' = r.halt
        /\ buttons' = r.buttons
        /\ UNCHANGED <<openai_client, airtable_table, store>>

NoOutcome == [t |-> "Exception"]

\* A run of admin_page with no button operated.
AdminView ==
    \E allOk \in BOOLEAN : \E selected_id \in SelectChoices(allOk) :
        AdminRun("none", <<>>, allOk, selected_id,
                 NoOutcome, NoOutcome, NoOutcome, NoOutcome)

\* A run of admin_page with "Login" clicked.
AdminLogin ==
    /\ page = "admin" /\ "login" \in buttons
    /\ \E password \in Passwords, allOk \in BOOLEAN :
       \E selected_id \in SelectChoices(allOk) :
          AdminRun("login", password, allOk, selected_id,
                   NoOutcome, NoOutcome, NoOutcome, NoOutcome)

\* A run of admin_page with "Analyze This Prompt" clicked.
AdminAnalyze ==
    /\ page = "admin" /\ "analyze" \in buttons
    /\ \E allOk \in BOOLEAN, o1 \in ApiOutcomes, o2 \in ApiOutcomes,
          o3 \in ApiOutcomes :
       \E selected_id \in SelectChoices(allOk) :
          AdminRun("analyze", <<>>, allOk, selected_id, o1, o2, o3, NoOutcome)

\* A run of admin_page with "Run Batch Analysis on All Prompts" clicked.
AdminBatch ==
    /\ page = "admin" /\ "batch" \in buttons
    /\ \E allOk \in BOOLEAN, ob \in ApiOutcomes :
       \E selected_id \in SelectChoices(allOk) :
          AdminRun("batch", <<>>, allOk, selected_id,
                   NoOutcome, NoOutcome, NoOutcome, ob)

\* the forms submitted in the runs explored: every required field filled;
\* one of goal, context, format left empty or blank; nothing typed at all.
\* The tone selectbox holds its first option unless changed.
FormsTried ==
    {Form(<<"x">>, <<"x">>, <<"x">>, Tones[1], k) : k \in ConstraintValues}
    \cup {Form(v, <<"x">>, <<"x">>, Tones[1], <<>>) : v \in Unfilled}
    \cup {Form(<<"x">>, v, <<"x">>, Tones[1], <<>>) : v \in Unfilled}
    \cup {Form(<<"x">>, <<"x">>, v, Tones[1], <<>>) : v \in Unfilled}
    \cup {Form(<<>>, <<>>, <<>>, Tones[1], <<>>)}

\* A run of main_app_page with "Generate My Prompt!" clicked.
SubmitForm ==
    /\ page = "main"
    /\ \E f \in FormsTried, o \in ApiOutcomes, createOk \in BOOLEAN :
          Submit(f, o, createOk)

\* ------------------------------------------------------------ the program
\* rows the table may hold that main_app_page did not write: a row without
\* the GeneratedPrompt field (Airtable omits empty cells)
ForeignFields == [Goal |-> <<"x">>]

\* a row as main_app_page writes it
SavedFields ==
    airtable_data(Form(<<"x">>, <<"x">>, <<"x">>, Tones[1], <<>>), <<"x">>)

\* what the table holds when the session starts
InitialStores ==
    UNION {[1..n -> {ForeignFields, SavedFields}] : n \in 0..MaxRecords}

WithIds(fs) == [i \in 1..Len(fs) |-> [id |-> RecordId(i), fields |-> fs[i]]]

\* The session after the first run, which app.main routes to main_app_page.
Init ==
    /\ openai_client \in BOOLEAN
    /\ airtable_table \in BOOLEAN
    /\ session_state = [k \in {} |-> FALSE]
    /\ \E fs \in InitialStores : store = WithIds(fs)
    /\ page = "main"
    /\ ui = <<>>
    /\ calls = <<>>
    /\ saves = <<>>
    /\ fetched = FALSE
    /\ records = <<>>
    /\ halt = "done"
    /\ buttons = MainButtons
    /\ submitted = NoForm

\* the prompt generator page
NextForm ==
    \/ MainView
    \/ SubmitForm

\* the admin panel page
NextAdmin ==
    \/ AdminView
    \/ AdminLogin
    \/ AdminAnalyze
    \/ AdminBatch

Next ==
    \/ NextForm
    \/ NextAdmin

Spec == Init /\ [][Next]_vars

\* A session that stays on the prompt generator page.
SpecForm == Init /\ [][NextForm]_vars

\* A session that stays on the admin panel page.
SpecAdmin == Init /\ [][NextAdmin]_vars

\* A session of a process started without a usable OpenAI key.
InitUnconfigured == Init /\ ~openai_client

SpecUnconfigured == InitUnconfigured /\ [][Next]_vars

\* ------------------------------------------------------------- properties
\* the last run was a form submission / an admin run with the given click
Submitted == page = "main" /\ submitted.submit
Clicked(click) == page = "admin" /\ submitted.click = click

EmptyRequired(f) == f.goal = <<>> \/ f.context = <<>> \/ f.output_format = <<>>
BlankRequired(f) ==
    Strip(f.goal) = <<>> \/ Strip(f.context) = <<>> \/ Strip(f.output_format) = <<>>

ValidationWarning == Has(ui, "warning", "Please fill out all the required fields")
SuccessShown == Has(ui, "success", "Prompt successfully generated!")
Shown(kind, text) == \E i \in 1..Len(ui) : ui[i] = Show(kind, text)

HoldsPrompt == "generated_prompt" \in DOMAIN session_state
LoggedIn == "logged_in" \in DOMAIN session_state /\ session_state["logged_in"]

\* the generation call of the last submission returned no usable prompt
SynthesisFailed == Submitted /\ calls # <<>> /\ calls[1].result \in {None, <<>>}
SynthesisSucceeded == Submitted /\ calls # <<>> /\ calls[1].result \notin {None, <<>>}

\* C1: a submission with an empty required field ends in the validation
\* warning and calls neither call_openai_api nor save_to_airtable, whatever
\* happened before it.
C1_EmptyFieldNoCalls ==
    (Submitted /\ EmptyRequired(submitted)) =>
        /\ ValidationWarning
        /\ calls = <<>>
        /\ saves = <<>>
        /\ halt = "return"

\* C1 witness: an earlier submission succeeded, then one with an empty goal
\* was rejected.
C1_Witness ==
    /\ Submitted /\ submitted.goal = <<>> /\ submitted.context # <<>>
    /\ HoldsPrompt
    /\ ValidationWarning

\* C2: save_to_airtable is called only after a generation call that returned
\* a non-empty prompt, the record handed to it carries exactly that text, and
\* every row this page wrote to the table has a non-empty GeneratedPrompt.
C2_SavedOnlyAfterSuccess ==
    /\ \A i \in 1..Len(saves) :
          /\ Len(calls) = 1
          /\ calls[1].result \notin {None, <<>>}
          /\ saves[i].data.GeneratedPrompt = calls[1].result
    /\ SynthesisFailed => saves = <<>>
    /\ \A i \in 1..Len(store) :
          "Timestamp" \in DOMAIN store[i].fields =>
              store[i].fields["GeneratedPrompt"] \notin {None, <<>>}

\* C2 witness: a padded completion was trimmed and the row created.
C2_Witness ==
    /\ Submitted /\ saves # <<>> /\ saves[1].saved
    /\ store # <<>> /\ store[Len(store)].fields = saves[1].data
    /\ saves[1].data.GeneratedPrompt = <<"x">>

\* C3: when generation succeeds and the save fails, the prompt of that
\* submission is in the session and on the page, the run ends normally, and
\* the failure shows only as a warning or an error message.
C3_SaveFailureKeepsPrompt ==
    (SynthesisSucceeded /\ saves # <<>> /\ ~saves[1].saved) =>
        /\ halt = "done"
        /\ HoldsPrompt /\ session_state["generated_prompt"] = calls[1].result
        /\ SuccessShown /\ Shown("code", calls[1].result)
        /\ \/ Has(ui, "warning", "Airtable is not configured. Data not saved.")
           \/ Has(ui, "error", "Failed to save data to Airtable")

\* C3 witness: airtable_table.create raised after a successful generation.
C3_Witness ==
    /\ SynthesisSucceeded /\ saves # <<>> /\ saves[1].create /\ ~saves[1].saved
    /\ Shown("code", calls[1].result)

\* C4: without a configured client every call of call_openai_api (synthesis,
\* quality, metadata, summary, batch) makes no network request, writes the
\* error message and returns None.
C4_UnconfiguredShortCircuits ==
    ~openai_client =>
        /\ \A i \in 1..Len(calls) :
              /\ ~calls[i].network
              /\ calls[i].result = None
        /\ calls # <<>> => Has(ui, "error", "OpenAI client is not initialized")
        /\ ~HoldsPrompt

\* C4 witness: the three analyses ran without a client.
C4_Witness ==
    /\ ~openai_client /\ Clicked("analyze") /\ Len(calls) = 3

\* C5: the admin page fetches, displays or analyses only in a logged-in
\* session; a wrong password leaves the flag false, shows the error and stops
\* the run; the flag turns true only in a login run with the right password.
C5_GateState ==
    /\ (page = "admin" /\ (fetched \/ records # <<>> \/ calls # <<>>
                           \/ Has(ui, "dataframe", "All Prompt Submissions")))
          => LoggedIn
    /\ (Clicked("login") /\ submitted.password # ADMIN_PASSWORD) =>
          /\ ~LoggedIn
          /\ Has(ui, "error", "Incorrect password.")
          /\ halt = "stop"
          /\ ~fetched /\ calls = <<>>
    /\ "logged_in" \notin DOMAIN session_state => page = "main"

C5_GateStep ==
    (~LoggedIn /\ LoggedIn') =>
        /\ page' = "admin" /\ submitted'.click = "login"
        /\ submitted'.password = ADMIN_PASSWORD

C5_AdminGate == []C5_GateState /\ [][C5_GateStep]_vars

\* C5 witness: a wrong password was rejected.
C5_Witness ==
    /\ Clicked("login") /\ submitted.password = <<"x">>
    /\ Has(ui, "error", "Incorrect password.") /\ ~LoggedIn

\* position of the subheader of an analysis in the page
HeaderAt(msg) == CHOOSE i \in 1..Len(ui) : ui[i] = El("subheader", msg)
HeaderCount(msg) == Cardinality({i \in 1..Len(ui) : ui[i] = El("subheader", msg)})
AnalysisRan == page = "admin" /\ Has(ui, "spinner", "Running GPT-5 analysis")

\* the element shown for a free-text analysis result
FreeTextShown(result, fallback) ==
    IF result \in {None, <<>>} THEN El("markdown", fallback)
    ELSE Show("markdown", result)

\* C6: a run of "Analyze This Prompt" makes exactly the calls quality,
\* metadata, summary, in that order and on the selected prompt, whatever the
\* earlier ones returned, and shows each result under its own subheader.
C6_ThreeAnalysesInOrder ==
    AnalysisRan =>
        /\ Len(calls) = 3
        /\ calls[1].op = "quality" /\ calls[2].op = "metadata"
        /\ calls[3].op = "summary"
        /\ \A i \in 1..3 : Shown("code", calls[i].user)
        /\ HeaderCount("Quality Analysis") = 1
        /\ HeaderCount("Extracted Metadata") = 1
        /\ HeaderCount("Strengths & Weaknesses") = 1
        /\ HeaderAt("Quality Analysis") < HeaderAt("Extracted Metadata")
        /\ HeaderAt("Extracted Metadata") < HeaderAt("Strengths & Weaknesses")
        /\ ui[HeaderAt("Extracted Metadata") - 1]
              = FreeTextShown(calls[1].result, "Could not generate analysis.")
        /\ ui[HeaderAt("Strengths & Weaknesses") - 1].kind \in {"json", "text"}
        /\ ui[Len(ui)]
              = FreeTextShown(calls[3].result, "Could not generate summary.")
        /\ halt = "done"

\* C6 witness: the first analysis failed at the provider and the third
\* returned text.
C6_Witness ==
    /\ AnalysisRan /\ Len(calls) = 3
    /\ calls[1].network /\ calls[1].result = None
    /\ calls[3].result = <<"x">>

\* the element the metadata analysis put on the page
MetadataShown == ui[HeaderAt("Strengths & Weaknesses") - 1]

\* C8 as stated: the metadata result is shown as parsed JSON, as the raw
\* string or as the fixed message, and every response that is not JSON is
\* shown as the raw string.
C8_NonJsonAlwaysRaw ==
    AnalysisRan =>
        /\ halt = "done"
        /\ \/ MetadataShown = Show("json", calls[2].result)
           \/ MetadataShown = Show("text", calls[2].result)
           \/ MetadataShown = El("text", "Could not extract metadata.")
        /\ (calls[2].result # None /\ ~JsonLoads(calls[2].result)) =>
              MetadataShown = Show("text", calls[2].result)

\* C8 amended: the metadata analysis never ends the run; a JSON response is
\* shown parsed, a response that is not JSON and not empty after trimming is
\* shown as the raw string, and a failed call or a response that is empty
\* after trimming is shown as the fixed message.
C8_MetadataFallback ==
    AnalysisRan =>
        /\ halt = "done"
        /\ LET m == calls[2].result IN
           IF m = None \/ m = <<>>
           THEN MetadataShown = El("text", "Could not extract metadata.")
           ELSE IF \A i \in 1..Len(m) : m[i] = "1"
           THEN MetadataShown = Show("json", m)
           ELSE MetadataShown = Show("text", m)

\* C8 witness: a response that is not JSON was shown as the raw string.
C8_Witness ==
    /\ AnalysisRan /\ calls[2].result = <<"x">>
    /\ MetadataShown = Show("text", <<"x">>)

\* the table holds no row with a GeneratedPrompt value
NoUsablePrompts == DropNa(store) = <<>>

\* C7: for a logged-in admin and a table without any GeneratedPrompt value
\* the admin run does not crash, and a batch run either calls the backend
\* with an empty payload or reports that there is nothing to analyse.
C7_BatchOverNoPrompts ==
    (page = "admin" /\ LoggedIn /\ NoUsablePrompts) =>
        /\ halt # "KeyError"
        /\ Clicked("batch") =>
              \/ \E i \in 1..Len(calls) :
                    calls[i].op = "batch" /\ calls[i].user = <<>>
              \/ Has(ui, "warning",
                     "No records found in Airtable or service is not configured.")

\* C9: a submission whose goal, context or format is blank after trimming is
\* rejected like one with an empty field: warning, no generation call, no
\* save.
C9_BlankFieldRejected ==
    (Submitted /\ BlankRequired(submitted)) =>
        /\ ValidationWarning
        /\ calls = <<>>
        /\ saves = <<>>

\* C10: after a submission whose generation call failed the page does not
\* show the success state with a generated prompt.
C10_FailedSynthesisNoSuccess ==
    SynthesisFailed => ~SuccessShown

====
